---- MODULE Spec2Model ----
(***************************************************************************)
(* Model of subruster's `enum` command (src/src/main.rs): run_enum, the    *)
(* tasks it spawns, check_wildcard and save_results.                       *)
(*                                                                         *)
(* The DNS resolver is an external collaborator.  It is modelled as a      *)
(* deterministic function of the queried name, fixed for the whole run:    *)
(* `zone` gives the answer for every candidate name and `wildcard` the     *)
(* answer the zone gives for names that do not exist (the nonce names      *)
(* check_wildcard builds).  An answer is a timeout (Err of timeout()), a   *)
(* resolver error (Ok(Err)), or a lookup with a possibly empty ip set.     *)
(***************************************************************************)
EXTENDS Integers, Sequences, FiniteSets, TLC

\* ---------------------------------------------------------------- bounds
MaxWords == 2
MaxC == 2

\* ------------------------------------------------------------ input sets
Labels == {"www", "mail"}
Domain == "example.com"
Addrs == {"1.2.3.4", "5.6.7.8"}

Timeout == [kind |-> "Timeout", ips |-> {}]
ResolveError == [kind |-> "Error", ips |-> {}]
Lookup(ips) == [kind |-> "Ok", ips |-> ips]

\* answers of resolver.lookup_ip wrapped in timeout()
Outcomes == {Timeout, ResolveError} \cup {Lookup(s) : s \in {{}} \cup {{a} : a \in Addrs}}
\* answers for the nonce name: one wildcard address is enough, the other is symmetric
WildOutcomes == {Timeout, ResolveError, Lookup({}), Lookup({"1.2.3.4"})}

RECURSIVE SeqsUpTo(_, _)
SeqsUpTo(S, n) ==
    IF n = 0 THEN {<<>>}
    ELSE LET shorter == SeqsUpTo(S, n - 1)
         IN shorter \cup {Append(s, x) : s \in {q \in shorter : Len(q) = n - 1}, x \in S}

Wordlists == SeqsUpTo(Labels, MaxWords)

\* the first entries of the built-in list
load_builtin_wordlist == <<"www", "mail">>

Range(s) == {s[i] : i \in 1..Len(s)}

\* format!("{}.{}", sub, domain)
FullDomain(sub) == sub \o "." \o Domain

VARIABLES
    wordlist,          \* args.wordlist: "None" or "Some"
    fileReadable,      \* whether File::open(path) succeeds
    fileWords,         \* the candidate lines of the wordlist file
    concurrency,       \* args.concurrency
    include_wildcard,  \* args.include_wildcard
    output,            \* args.output: "None" or "Some"
    zone,              \* resolver: full domain name -> answer
    wildcard,          \* resolver: answer for a nonce name
    mainPc,            \* position of run_enum
    exit,              \* "running", "Ok" or "Err": what run_enum returned
    subdomains,        \* the loaded candidate list
    spawned,           \* number of handles pushed
    joined,            \* number of handles awaited
    permits,           \* free permits of the semaphore
    results,           \* Vec<SubdomainResult> behind the results mutex
    found_subdomains,  \* HashSet<String> behind the found mutex
    results_lock,      \* holder of the results mutex: 0 free, task index, or -1 run_enum
    found_lock,        \* holder of the found mutex
    pc,                \* position of each task
    ips,               \* each task's local ips
    lookups,           \* lookup_ip calls issued for each task's candidate
    probes,            \* lookup_ip calls issued for a nonce by each task
    console,           \* the result lines printed, in order
    completed,         \* the completion point of run_enum was passed
    file               \* the output file: whether it was created, and the text written

vars == <<wordlist, fileReadable, fileWords, concurrency, include_wildcard, output,
          zone, wildcard, mainPc, exit, subdomains, spawned, joined, permits,
          results, found_subdomains, results_lock, found_lock, pc, ips, lookups,
          probes, console, completed, file>>

argsEnv == <<wordlist, fileReadable, fileWords, concurrency, include_wildcard, output,
             zone, wildcard>>

Tasks == 1..MaxWords

\* what the loader will return when it succeeds
Candidates == IF wordlist = "None" THEN load_builtin_wordlist ELSE fileWords

Init ==
    /\ \/ /\ wordlist = "None"
          /\ fileReadable = FALSE
          /\ fileWords = <<>>
       \/ /\ wordlist = "Some"
          /\ fileReadable = FALSE
          /\ fileWords = <<>>
       \/ /\ wordlist = "Some"
          /\ fileReadable = TRUE
          /\ fileWords \in Wordlists
    /\ concurrency \in 0..MaxC
    /\ include_wildcard \in BOOLEAN
    /\ output \in {"None", "Some"}
    /\ zone \in [{FullDomain(s) : s \in Range(Candidates)} -> Outcomes]
    /\ wildcard \in WildOutcomes
    /\ mainPc = "load"
    /\ exit = "running"
    /\ subdomains = <<>>
    /\ spawned = 0
    /\ joined = 0
    /\ permits = 0
    /\ results = <<>>
    /\ found_subdomains = {}
    /\ results_lock = 0
    /\ found_lock = 0
    /\ pc = [t \in Tasks |-> "unspawned"]
    /\ ips = [t \in Tasks |-> {}]
    /\ lookups = [t \in Tasks |-> 0]
    /\ probes = [t \in Tasks |-> 0]
    /\ console = <<>>
    /\ completed = FALSE
    /\ file = [created |-> FALSE, text |-> <<>>]

\* --------------------------------------------------------------- run_enum
\* mutant: the loader's error is swallowed and the run goes on with no candidate
LoadWordlist_IgnoreError ==
    /\ mainPc = "load"
    /\ subdomains' = IF wordlist = "Some" /\ ~fileReadable THEN <<>> ELSE Candidates
    /\ permits' = concurrency
    /\ mainPc' = IF Len(subdomains') = 0 THEN "join" ELSE "spawn"
    /\ UNCHANGED <<argsEnv, exit, spawned, joined, results, found_subdomains, results_lock,
                   found_lock, pc, ips, lookups, probes, console, completed, file>>

\* mutant: the semaphore is built with at least one permit
LoadWordlist_AtLeastOnePermit ==
    /\ mainPc = "load"
    /\ IF wordlist = "Some" /\ ~fileReadable
       THEN /\ mainPc' = "returned"
            /\ exit' = "Err"
            /\ UNCHANGED <<subdomains, permits>>
       ELSE /\ subdomains' = Candidates
            /\ permits' = IF concurrency = 0 THEN 1 ELSE concurrency
            /\ mainPc' = IF Len(Candidates) = 0 THEN "join" ELSE "spawn"
            /\ UNCHANGED exit
    /\ UNCHANGED <<argsEnv, spawned, joined, results, found_subdomains, results_lock,
                   found_lock, pc, ips, lookups, probes, console, completed, file>>

\* lines 153-182: load the wordlist (`?` returns the error), then build the
\* semaphore and the two empty collections
LoadWordlist ==
    /\ mainPc = "load"
    /\ IF wordlist = "Some" /\ ~fileReadable
       THEN /\ mainPc' = "returned"
            /\ exit' = "Err"
            /\ UNCHANGED <<subdomains, permits>>
       ELSE /\ subdomains' = Candidates
            /\ permits' = concurrency
            /\ mainPc' = IF Len(Candidates) = 0 THEN "join" ELSE "spawn"
            /\ UNCHANGED exit
    /\ UNCHANGED <<argsEnv, spawned, joined, results, found_subdomains, results_lock,
                   found_lock, pc, ips, lookups, probes, console, completed, file>>

\* lines 184-246: one iteration of `for sub in subdomains`: tokio::spawn and
\* handles.push; the spawned task may run at once
Spawn ==
    /\ mainPc = "spawn"
    /\ spawned < Len(subdomains)
    /\ spawned' = spawned + 1
    /\ pc' = [pc EXCEPT ![spawned + 1] = "acquire"]
    /\ mainPc' = IF spawned + 1 = Len(subdomains) THEN "join" ELSE "spawn"
    /\ UNCHANGED <<argsEnv, exit, subdomains, joined, permits, results, found_subdomains,
                   results_lock, found_lock, ips, lookups, probes, console, completed, file>>

\* mutant: the handle is dropped instead of awaited
JoinHandle_NoWait ==
    /\ mainPc = "join"
    /\ joined < Len(subdomains)
    /\ joined' = joined + 1
    /\ UNCHANGED <<argsEnv, mainPc, exit, subdomains, spawned, permits, results,
                   found_subdomains, results_lock, found_lock, pc, ips, lookups, probes,
                   console, completed, file>>

\* lines 249-251: `handle.await?` for the next handle, in spawn order
JoinHandle ==
    /\ mainPc = "join"
    /\ joined < Len(subdomains)
    /\ pc[joined + 1] = "done"
    /\ joined' = joined + 1
    /\ UNCHANGED <<argsEnv, mainPc, exit, subdomains, spawned, permits, results,
                   found_subdomains, results_lock, found_lock, pc, ips, lookups, probes,
                   console, completed, file>>

\* lines 253-259: the join loop is over; completion message; without an output
\* file run_enum returns Ok(())
Complete ==
    /\ mainPc = "join"
    /\ joined = Len(subdomains)
    /\ completed' = TRUE
    /\ IF output = "None"
       THEN mainPc' = "returned" /\ exit' = "Ok"
       ELSE mainPc' = "save" /\ UNCHANGED exit
    /\ UNCHANGED <<argsEnv, subdomains, spawned, joined, permits, results, found_subdomains,
                   results_lock, found_lock, pc, ips, lookups, probes, console, file>>

\* the line terminator writeln! appends
Newline == "\n"

\* mutant: write! for writeln!, no line terminator
WrittenLines_NoNewline(rs) == [i \in 1..Len(rs) |-> rs[i].subdomain]

\* lines 551-553: writeln!(file, "{}", result.subdomain) for every result, in
\* order; the text is the sequence of pieces written: a name, then a newline
RECURSIVE WrittenLines(_)
WrittenLines(rs) ==
    IF rs = <<>> THEN <<>>
    ELSE <<Head(rs).subdomain, Newline>> \o WrittenLines(Tail(rs))

\* reading a text as newline-delimited lines (as BufRead::lines of lines
\* 277-281 does): the pieces up to a newline are one line, a last line
\* without a newline counts when it is not empty
RECURSIVE ReadLinesFrom(_, _, _)
ReadLinesFrom(text, line, open) ==
    IF text = <<>> THEN (IF open THEN <<line>> ELSE <<>>)
    ELSE IF Head(text) = Newline
         THEN <<line>> \o ReadLinesFrom(Tail(text), "", FALSE)
         ELSE ReadLinesFrom(Tail(text), line \o Head(text), TRUE)
ReadLines(text) == ReadLinesFrom(text, "", FALSE)

\* lines 541-556 and 260-272: lock the results, File::create (`?` returns the
\* error), one line per result; the guard is dropped on return
save_results(createOk) ==
    /\ mainPc = "save"
    /\ results_lock = 0
    /\ IF createOk
       THEN /\ file' = [created |-> TRUE, text |-> WrittenLines(results)]
            /\ exit' = "Ok"
       ELSE /\ exit' = "Err"
            /\ UNCHANGED file
    /\ mainPc' = "returned"
    /\ UNCHANGED <<argsEnv, subdomains, spawned, joined, permits, results, found_subdomains,
                   results_lock, found_lock, pc, ips, lookups, probes, console, completed>>

\* ------------------------------------------------------------ the tasks
\* line 185: the task's full_domain
Name(t) == FullDomain(subdomains[t])

\* timeout(.., resolver.lookup_ip(name)).await for a candidate name
Resolve(name) == zone[name]

\* mutant: `count() > 1` for `count() > 0`
check_wildcard_MoreThanOne ==
    CASE wildcard.kind = "Ok" -> Cardinality(wildcard.ips) > 1
      [] wildcard.kind = "Error" -> FALSE
      [] wildcard.kind = "Timeout" -> FALSE

\* mutant: a resolver error of the probe is taken for a wildcard
check_wildcard_ErrorIsWildcard ==
    CASE wildcard.kind = "Ok" -> Cardinality(wildcard.ips) > 0
      [] wildcard.kind = "Error" -> TRUE
      [] wildcard.kind = "Timeout" -> FALSE

\* lines 515-539: probe a nonce name under the domain; Ok(true) only when the
\* lookup answers with at least one address (.unwrap_or(false) never applies)
check_wildcard ==
    CASE wildcard.kind = "Ok" -> Cardinality(wildcard.ips) > 0
      [] wildcard.kind = "Error" -> FALSE
      [] wildcard.kind = "Timeout" -> FALSE

\* mutant: the permit is forgotten instead of dropped
Finish_LeakPermit(t) ==
    /\ pc' = [pc EXCEPT ![t] = "done"]
    /\ permits' = permits

\* the task ends: _permit is dropped, the handle becomes ready
Finish(t) ==
    /\ pc' = [pc EXCEPT ![t] = "done"]
    /\ permits' = permits + 1

\* mutant: the lookup is issued without waiting for a permit
Acquire_NoGate(t) ==
    /\ pc[t] = "acquire"
    /\ permits' = permits - 1
    /\ pc' = [pc EXCEPT ![t] = "lookup"]
    /\ lookups' = [lookups EXCEPT ![t] = @ + 1]
    /\ UNCHANGED <<argsEnv, mainPc, exit, subdomains, spawned, joined, results,
                   found_subdomains, results_lock, found_lock, ips, probes, console,
                   completed, file>>

\* mutant: try_acquire for acquire: without a free permit the task gives up
Acquire_TryAcquire(t) ==
    /\ pc[t] = "acquire"
    /\ IF permits > 0
       THEN /\ permits' = permits - 1
            /\ pc' = [pc EXCEPT ![t] = "lookup"]
            /\ lookups' = [lookups EXCEPT ![t] = @ + 1]
       ELSE /\ pc' = [pc EXCEPT ![t] = "done"]
            /\ UNCHANGED <<permits, lookups>>
    /\ UNCHANGED <<argsEnv, mainPc, exit, subdomains, spawned, joined, results,
                   found_subdomains, results_lock, found_lock, ips, probes, console,
                   completed, file>>

\* line 193 and 195-198: semaphore.acquire() succeeds, lookup_ip is issued
Acquire(t) ==
    /\ pc[t] = "acquire"
    /\ permits > 0
    /\ permits' = permits - 1
    /\ pc' = [pc EXCEPT ![t] = "lookup"]
    /\ lookups' = [lookups EXCEPT ![t] = @ + 1]
    /\ UNCHANGED <<argsEnv, mainPc, exit, subdomains, spawned, joined, results,
                   found_subdomains, results_lock, found_lock, ips, probes, console,
                   completed, file>>

\* mutant: the `!ips.is_empty()` test is missing
LookupReturns_NoEmptyCheck(t) ==
    /\ pc[t] = "lookup"
    /\ LET answer == Resolve(Name(t))
       IN IF answer.kind = "Ok"
          THEN /\ ips' = [ips EXCEPT ![t] = answer.ips]
               /\ probes' = [probes EXCEPT ![t] = @ + 1]
               /\ pc' = [pc EXCEPT ![t] = "probe"]
               /\ UNCHANGED permits
          ELSE /\ Finish(t)
               /\ UNCHANGED <<ips, probes>>
    /\ UNCHANGED <<argsEnv, mainPc, exit, subdomains, spawned, joined, results,
                   found_subdomains, results_lock, found_lock, lookups, console,
                   completed, file>>

\* mutant: a lookup that failed is issued a second time
LookupReturns_RetryOnce(t) ==
    /\ pc[t] = "lookup"
    /\ LET answer == Resolve(Name(t))
       IN IF answer.kind = "Ok" /\ answer.ips # {}
          THEN /\ ips' = [ips EXCEPT ![t] = answer.ips]
               /\ probes' = [probes EXCEPT ![t] = @ + 1]
               /\ pc' = [pc EXCEPT ![t] = "probe"]
               /\ UNCHANGED <<permits, lookups>>
          ELSE IF lookups[t] < 2
               THEN /\ lookups' = [lookups EXCEPT ![t] = @ + 1]
                    /\ UNCHANGED <<pc, permits, ips, probes>>
               ELSE /\ Finish(t)
                    /\ UNCHANGED <<ips, probes, lookups>>
    /\ UNCHANGED <<argsEnv, mainPc, exit, subdomains, spawned, joined, results,
                   found_subdomains, results_lock, found_lock, console,
                   completed, file>>

\* lines 199-206 and 239-241: the candidate lookup ends; only Ok(Ok(lookup))
\* with a non-empty ips goes on, to the nonce lookup of check_wildcard
LookupReturns(t) ==
    /\ pc[t] = "lookup"
    /\ LET answer == Resolve(Name(t))
       IN IF answer.kind = "Ok" /\ answer.ips # {}
          THEN /\ ips' = [ips EXCEPT ![t] = answer.ips]
               /\ probes' = [probes EXCEPT ![t] = @ + 1]
               /\ pc' = [pc EXCEPT ![t] = "probe"]
               /\ UNCHANGED permits
          ELSE /\ Finish(t)
               /\ UNCHANGED <<ips, probes>>
    /\ UNCHANGED <<argsEnv, mainPc, exit, subdomains, spawned, joined, results,
                   found_subdomains, results_lock, found_lock, lookups, console,
                   completed, file>>

\* lines 205-217: check_wildcard returns; `!is_wildcard || include_wildcard`
\* decides whether the task goes on to results.lock()
ProbeReturns(t) ==
    /\ pc[t] = "probe"
    /\ LET is_wildcard == check_wildcard
       IN IF ~is_wildcard \/ include_wildcard
          THEN /\ pc' = [pc EXCEPT ![t] = "lock_results"]
               /\ UNCHANGED permits
          ELSE Finish(t)
    /\ UNCHANGED <<argsEnv, mainPc, exit, subdomains, spawned, joined, results,
                   found_subdomains, results_lock, found_lock, ips, lookups, probes,
                   console, completed, file>>

\* line 217: results.lock().await is granted
LockResults(t) ==
    /\ pc[t] = "lock_results"
    /\ results_lock = 0
    /\ results_lock' = t
    /\ pc' = [pc EXCEPT ![t] = "push"]
    /\ UNCHANGED <<argsEnv, mainPc, exit, subdomains, spawned, joined, permits, results,
                   found_subdomains, found_lock, ips, lookups, probes, console,
                   completed, file>>

\* lines 218-219: results_lock.push(result); the guard is dropped
PushResult(t) ==
    /\ pc[t] = "push"
    /\ results_lock = t
    /\ results' = Append(results, [subdomain |-> Name(t), ips |-> ips[t]])
    /\ results_lock' = 0
    /\ pc' = [pc EXCEPT ![t] = "lock_found"]
    /\ UNCHANGED <<argsEnv, mainPc, exit, subdomains, spawned, joined, permits,
                   found_subdomains, found_lock, ips, lookups, probes, console,
                   completed, file>>

\* line 222: found_subdomains.lock().await is granted
LockFound(t) ==
    /\ pc[t] = "lock_found"
    /\ found_lock = 0
    /\ found_lock' = t
    /\ pc' = [pc EXCEPT ![t] = "insert"]
    /\ UNCHANGED <<argsEnv, mainPc, exit, subdomains, spawned, joined, permits, results,
                   found_subdomains, results_lock, ips, lookups, probes, console,
                   completed, file>>

\* mutant: the result line is printed whatever insert returns
InsertFound_PrintAlways(t) ==
    /\ pc[t] = "insert"
    /\ found_lock = t
    /\ found_subdomains' = found_subdomains \cup {Name(t)}
    /\ console' = Append(console, Name(t))
    /\ found_lock' = 0
    /\ Finish(t)
    /\ UNCHANGED <<argsEnv, mainPc, exit, subdomains, spawned, joined, results,
                   results_lock, ips, lookups, probes, completed, file>>

\* mutant: the label is inserted into the set instead of the full domain name
InsertFound_InsertsLabel(t) ==
    /\ pc[t] = "insert"
    /\ found_lock = t
    /\ found_subdomains' = found_subdomains \cup {subdomains[t]}
    /\ console' = IF subdomains[t] \notin found_subdomains
                  THEN Append(console, Name(t))
                  ELSE console
    /\ found_lock' = 0
    /\ Finish(t)
    /\ UNCHANGED <<argsEnv, mainPc, exit, subdomains, spawned, joined, results,
                   results_lock, ips, lookups, probes, completed, file>>

\* lines 223-243: HashSet::insert returns true for a new name only, and only
\* then the result line is printed (in either form of `silent`); the guard is
\* dropped and the task ends
InsertFound(t) ==
    /\ pc[t] = "insert"
    /\ found_lock = t
    /\ found_subdomains' = found_subdomains \cup {Name(t)}
    /\ console' = IF Name(t) \notin found_subdomains
                  THEN Append(console, Name(t))
                  ELSE console
    /\ found_lock' = 0
    /\ Finish(t)
    /\ UNCHANGED <<argsEnv, mainPc, exit, subdomains, spawned, joined, results,
                   results_lock, ips, lookups, probes, completed, file>>

\* ---------------------------------------------------------- specification
Next ==
    \/ LoadWordlist
    \/ Spawn
    \/ JoinHandle
    \/ Complete
    \/ \E createOk \in BOOLEAN : save_results(createOk)
    \/ \E t \in Tasks :
          \/ Acquire(t)
          \/ LookupReturns(t)
          \/ ProbeReturns(t)
          \/ LockResults(t)
          \/ PushResult(t)
          \/ LockFound(t)
          \/ InsertFound(t)

Spec == Init /\ [][Next]_vars

\* the steps of run_enum and of one task
Main ==
    \/ LoadWordlist
    \/ Spawn
    \/ JoinHandle
    \/ Complete
    \/ \E createOk \in BOOLEAN : save_results(createOk)
Task(t) ==
    \/ Acquire(t)
    \/ LookupReturns(t)
    \/ ProbeReturns(t)
    \/ LockResults(t)
    \/ PushResult(t)
    \/ LockFound(t)
    \/ InsertFound(t)

\* the tokio runtime runs every task that can make a step, the semaphore and
\* the mutexes hand over to a waiter when they are free, and every resolver
\* call ends, by the timeout at the latest
FairSpec == Spec /\ WF_vars(Main) /\ \A t \in Tasks : WF_vars(Task(t))

\* ================================================================ claims
\* the handles run_enum has pushed and awaits
Handles == 1..Len(subdomains)
AllTasksDone == \A t \in Handles : pc[t] = "done"
ResultNames == {results[i].subdomain : i \in 1..Len(results)}
\* an answer that leads to a result: Ok(Ok(lookup)) with !ips.is_empty()
Resolved(answer) == answer.kind = "Ok" /\ answer.ips # {}
\* the calls to the resolver that are in flight
Outstanding == {t \in Tasks : pc[t] \in {"lookup", "probe"}}

\* C1: once the join loop is over, the result collection handed to
\* save_results holds no two entries with the same full domain name.
C1_NoDuplicateResults ==
    completed =>
        \A i, j \in 1..Len(results) :
            i # j => results[i].subdomain # results[j].subdomain

\* C2: every full domain name is reported on the console at most once, also
\* when several tasks submit the same name.
C2_ReportedAtMostOnce ==
    \A i, j \in 1..Len(console) : i # j => console[i] # console[j]

\* two tasks of the same name both went through the found-set region
C2_Witness ==
    /\ Len(subdomains) = 2
    /\ Name(1) = Name(2)
    /\ AllTasksDone
    /\ Len(results) = 2
    /\ console = <<Name(1)>>

\* C3: the resolver calls in flight, candidate lookups and wildcard probes
\* together, never exceed the concurrency limit.
C3_OutstandingAtMostC ==
    (mainPc # "load") => Cardinality(Outstanding) <= concurrency

\* the gate is full with a probe in flight while another task waits for a permit
C3_Witness ==
    /\ concurrency = 1
    /\ \E t \in Tasks : pc[t] = "probe"
    /\ \E t \in Tasks : pc[t] = "acquire"

\* C4: the enumeration phase is left only when every task has ended, and
\* from then on no step changes the result collection.
C4_DrainBeforeCompletion ==
    [][/\ completed' => AllTasksDone'
       /\ completed => results' = results]_vars

\* the output file was written from a non-empty result collection
C4_Witness ==
    /\ completed
    /\ file.created
    /\ Len(results) = 2
    /\ exit = "Ok"

\* C5: with a wildcard answer W for the nonce, no candidate that resolves to
\* W is in the final results unless include_wildcard is set, and with
\* include_wildcard set every such candidate is in the final results.
C5_WildcardEqualSet ==
    (completed /\ Resolved(wildcard)) =>
        \A t \in Handles :
            Resolve(Name(t)) = wildcard =>
                IF include_wildcard
                THEN Name(t) \in ResultNames
                ELSE Name(t) \notin ResultNames

\* a candidate answering W was probed and dropped; one with include_wildcard was kept
C5_Witness ==
    /\ completed
    /\ Resolved(wildcard)
    /\ ~include_wildcard
    /\ \E t \in Handles : Resolve(Name(t)) = wildcard /\ probes[t] = 1
C5_WitnessInclude ==
    /\ completed
    /\ Resolved(wildcard)
    /\ include_wildcard
    /\ \E t \in Handles : Resolve(Name(t)) = wildcard /\ Name(t) \in ResultNames

\* C6: with a wildcard answer W and include_wildcard unset, a candidate that
\* resolves to a non-empty set other than W is in the final results.
C6_OtherAddressSurvives ==
    (completed /\ Resolved(wildcard) /\ ~include_wildcard) =>
        \A t \in Handles :
            (Resolved(Resolve(Name(t))) /\ Resolve(Name(t)).ips # wildcard.ips)
                => Name(t) \in ResultNames

\* C7: when the nonce does not resolve (timeout, error or empty answer) the
\* final result names are exactly the candidates with a non-empty answer.
C7_NoWildcardNoFilter ==
    (completed /\ ~Resolved(wildcard)) =>
        ResultNames = {Name(t) : t \in {u \in Handles : Resolved(Resolve(Name(u)))}}

\* one candidate resolved and one did not, the nonce timed out or failed
C7_Witness ==
    /\ completed
    /\ ~Resolved(wildcard)
    /\ \E t \in Handles : Resolved(Resolve(Name(t))) /\ Name(t) \in ResultNames
    /\ \E t \in Handles : ~Resolved(Resolve(Name(t)))

\* the set of names a run must end with, from the candidate list, the
\* resolver and include_wildcard alone
ExpectedNames ==
    {Name(t) : t \in {u \in Handles :
        /\ Resolved(Resolve(Name(u)))
        /\ (include_wildcard \/ ~Resolved(wildcard))}}

\* C8: the final set of names is a function of the candidate list and the
\* resolver: it is the same for every concurrency limit and interleaving.
C8_SameSetForEveryC ==
    completed => ResultNames = ExpectedNames

\* a sequential run (one permit, two tasks) that found both names
C8_Witness ==
    /\ completed
    /\ concurrency = 1
    /\ Cardinality(ResultNames) = 2
C8_WitnessParallel ==
    /\ concurrency = 2
    /\ Cardinality(Outstanding) = 2

\* C9: a candidate lookup that times out, fails or answers with no address
\* ends its task at once: results, found set and console stay as they are,
\* the permit goes back, run_enum is not touched; and run_enum returns an
\* error only for the wordlist or the output file.
C9_FailedLookupAbsorbed ==
    [][/\ \A t \in Handles :
            (pc[t] = "lookup" /\ pc'[t] # "lookup" /\ ~Resolved(Resolve(Name(t)))) =>
                /\ pc' = [pc EXCEPT ![t] = "done"]
                /\ results' = results
                /\ found_subdomains' = found_subdomains
                /\ console' = console
                /\ permits' = permits + 1
                /\ mainPc' = mainPc
                /\ exit' = exit
       /\ (exit' = "Err" /\ completed') => output = "Some"
       /\ (mainPc' = "returned" /\ output = "None" /\ completed') => exit' = "Ok"]_vars

\* a lookup failed, the other task delivered its result, the run returned Ok
C9_Witness ==
    /\ exit = "Ok"
    /\ Len(results) = 1
    /\ \E t \in Handles : ~Resolved(Resolve(Name(t))) /\ pc[t] = "done" /\ lookups[t] = 1

NoResolverCall == \A t \in Tasks : lookups[t] = 0 /\ probes[t] = 0

C10_WitnessWordlist ==
    /\ exit = "Err"
    /\ ~completed

\* C11: the lines of the output file, read back as newline-delimited text,
\* are exactly the full domain names of the final result collection.
C11_OutputRoundTrip ==
    file.created => Range(ReadLines(file.text)) = ResultNames

\* a file written from two results of different names
C11_Witness ==
    /\ file.created
    /\ Len(results) = 2
    /\ Cardinality(ResultNames) = 2

\* the resolver calls issued so far, candidate lookups and nonce probes
RECURSIVE CallsUpTo(_)
CallsUpTo(n) == IF n = 0 THEN 0 ELSE lookups[n] + probes[n] + CallsUpTo(n - 1)
TotalCalls == CallsUpTo(MaxWords)

\* C12: the wildcard probe is made once, before any candidate lookup: no
\* task has a probe in flight during the enumeration, and a finished run
\* over N candidates has issued N + 1 resolver calls.
C12_SingleProbeBeforeEnumeration ==
    /\ \A t \in Tasks : pc[t] # "probe"
    /\ completed => TotalCalls = Len(subdomains) + 1

\* no task with a resolver call in flight holds one of the two mutexes
NoLockAcrossResolverCall ==
    \A t \in Outstanding : results_lock # t /\ found_lock # t

\* C13: a submit is one mutual-exclusion region: the step that stores the
\* entry is the step that checks the name and inserts it, so an entry is
\* stored only for a name that is new and the two collections change
\* together; and no lock is held across a resolver call.
C13_SubmitIsOneRegion ==
    [][/\ results' # results =>
            /\ results'[Len(results')].subdomain \notin found_subdomains
            /\ found_subdomains' =
                   found_subdomains \cup {results'[Len(results')].subdomain}
       /\ found_subdomains' # found_subdomains => results' # results
       /\ NoLockAcrossResolverCall']_vars

\* C14: every entry of the candidate list gets one task, no other task
\* exists, and a task issues the lookup of its name once: never twice, also
\* after a failure, and always once it has passed the gate.
C14_OneTaskOneAttempt ==
    /\ \A t \in Tasks :
          /\ lookups[t] <= 1
          /\ pc[t] \notin {"unspawned", "acquire"} => lookups[t] = 1
          /\ (mainPc # "load" /\ t > Len(subdomains)) => pc[t] = "unspawned"
    /\ (mainPc \in {"join", "save"} \/ completed) =>
          /\ spawned = Len(subdomains)
          /\ \A t \in Handles : pc[t] # "unspawned"

\* the same candidate twice, both lookups failed, each was made once
C14_Witness ==
    /\ completed
    /\ Len(subdomains) = 2
    /\ subdomains[1] = subdomains[2]
    /\ ~Resolved(Resolve(Name(1)))
    /\ lookups[1] = 1
    /\ lookups[2] = 1

\* run_enum has returned after an enumeration in which every task got its
\* permit and ended, and every permit and both mutexes are free again
Drained ==
    /\ mainPc = "returned"
    /\ completed
    /\ AllTasksDone
    /\ \A t \in Handles : lookups[t] = 1
    /\ permits = concurrency
    /\ results_lock = 0
    /\ found_lock = 0

\* C15: with a concurrency limit of at least 1 and a readable candidate
\* list, every fair run ends drained: all tasks got a permit and ended, all
\* permits are free, run_enum has returned; no interleaving deadlocks.
C15_EveryRunDrains ==
    (concurrency >= 1 /\ ~(wordlist = "Some" /\ ~fileReadable)) ~> Drained

\* two tasks went through one permit and both mutexes, and the run returned
C15_Witness ==
    /\ Drained
    /\ concurrency = 1
    /\ Len(results) = 2

\* C16: with concurrency 0 and a candidate list that is not empty no task
\* gets a permit, no resolver call is issued and run_enum stays in the spawn
\* and join loops: it neither completes nor returns.
C16_ZeroPermitsHang ==
    (concurrency = 0 /\ mainPc # "load" /\ Len(subdomains) > 0) =>
        /\ NoResolverCall
        /\ \A t \in Tasks : pc[t] \in {"unspawned", "acquire"}
        /\ mainPc \in {"spawn", "join"}
        /\ joined = 0
        /\ ~completed
        /\ exit = "running"

\* every task is spawned and waits for a permit, run_enum waits for the first
C16_Witness ==
    /\ concurrency = 0
    /\ mainPc = "join"
    /\ Len(subdomains) = 2
    /\ pc[1] = "acquire"
    /\ pc[2] = "acquire"

\* C17: every name of the found set is the name of a stored result, in every
\* state; once every task has ended the names of the results, the found set
\* and the names reported on the console are the same set.
C17_CollectionsConsistent ==
    /\ found_subdomains \subseteq ResultNames
    /\ (mainPc \notin {"load", "spawn"} /\ AllTasksDone) =>
          /\ ResultNames = found_subdomains
          /\ Range(console) = found_subdomains

\* all tasks ended with two names found
C17_Witness ==
    /\ mainPc = "join"
    /\ AllTasksDone
    /\ Cardinality(found_subdomains) = 2
\* a result is stored whose name is not in the found set yet
C17_WitnessBetween ==
    /\ Len(results) = 2
    /\ found_subdomains = {}

\* the place of a name's first entry in the result collection
FirstIndex(name) ==
    CHOOSE i \in 1..Len(results) :
        /\ results[i].subdomain = name
        /\ \A j \in 1..(i - 1) : results[j].subdomain # name

\* C18: of two names, the one reported first on the console comes first in
\* the final result collection, and so in the output file.
C18_OutputOrderIsReportOrder ==
    completed =>
        \A i, j \in 1..Len(console) :
            i < j => FirstIndex(console[i]) < FirstIndex(console[j])

====
